---------------------------- MODULE Spec2Model ----------------------------
(***************************************************************************)
(* A model of the task scheduler of Thorin-plugin-tasks:                   *)
(*   src/lib/taskEntry.js   (TaskEntry, getLaunchAt, getLaunchOn,          *)
(*                           getSeconds, getStartupDelay, setStartupDelay) *)
(*   src/lib/taskContext.js (TaskContext)                                  *)
(*   src/index.js           (addTask: the first start on the next tick)    *)
(*                                                                         *)
(* One task is modelled in full; of the task registered next to it, what   *)
(* its TaskEntry holds and its entry of the persistence store.  Time is    *)
(* the wall clock in milliseconds; the epoch 0 is a local midnight that    *)
(* starts a week (a Sunday, moment's default first day of the week) and a  *)
(* year.  A JavaScript value is a record [k, v]: k = "undef", k = "num"    *)
(* with v the number, k = "str" with v the characters, or k = "nan".       *)
(* Every synchronous stretch of JavaScript is one action: the event loop   *)
(* runs a callback to completion before the next one.                      *)
(***************************************************************************)
EXTENDS Integers, Sequences, FiniteSets, TLC

(***************************************************************************)
(* Bounds of the model.                                                    *)
(***************************************************************************)
MaxRuns == 2
MaxStarts == 1
MaxStops == 1
MaxHandlers == 1
MaxStrLen == 4
MaxOtherArms == 1
MaxEvHandlers == 2
MaxPrepares == 2

(***************************************************************************)
(* JavaScript values.                                                      *)
(***************************************************************************)
Undef == [k |-> "undef", v |-> 0]
Num(n) == [k |-> "num", v |-> n]
IsNum(x) == x.k = "num"
\* if (x): undefined, 0, NaN and the empty string are falsy
Truthy(x) == (x.k = "num" /\ x.v # 0) \/ (x.k = "str" /\ x.v # <<>>)
Max(a, b) == IF a >= b THEN a ELSE b

(***************************************************************************)
(* The inputs the model draws from.                                        *)
(***************************************************************************)
ActionNames == {"a", "b"}
\* the functions handed to action(): identities
ActionFns == {1}
\* the functions handed to handle(): identities
HandlerFns == {1}
\* this[actions] is an object literal: the names it inherits from
\* Object.prototype, of which one is drawn, and the function found there
ObjectPrototypeNames == {"toString"}
ObjectPrototypeFn == 9
\* names handed to schedule(); "c" is never registered
NameLists == {<<"a", "b">>, <<"c">>}
EVENTS == {"failed", "completed", "timeout", "stop"}
TaskName == "t1"
OtherTask == "t2"
TaskNames == {TaskName, OtherTask}
\* the wall clock when the process boots: 00:00:05.000
BootTime == 5 * 1000
\* what the persistence store holds for the task at boot: nothing, a
\* timestamp that has passed, a timestamp still to come
PersistedAtBoot == {Undef, Num(1000), Num(9000)}
\* the options objects handed to schedule()
OptChoices ==
  { [delay |-> Undef,  timer |-> Undef,   at |-> <<>>, on |-> "", timeout |-> Undef],
    [delay |-> Num(1), timer |-> Undef,   at |-> <<>>, on |-> "", timeout |-> Num(2)],
    [delay |-> Undef,  timer |-> Num(0),  at |-> <<>>, on |-> "", timeout |-> Undef],
    [delay |-> Undef,  timer |-> Num(1),  at |-> <<>>, on |-> "", timeout |-> Num(2)],
    [delay |-> Num(1), timer |-> Num(60), at |-> <<>>, on |-> "", timeout |-> Undef],
    [delay |-> Undef,  timer |-> Num(-1), at |-> <<>>, on |-> "", timeout |-> Undef],
    [delay |-> Undef,  timer |-> Undef,   at |-> <<0, 0, 7>>, on |-> "", timeout |-> Undef],
    [delay |-> Undef,  timer |-> Num(1),  at |-> <<0, 0, 7>>, on |-> "", timeout |-> Undef],
    [delay |-> Undef,  timer |-> Num(1),  at |-> <<25, 0>>, on |-> "", timeout |-> Undef],
    [delay |-> Undef,  timer |-> Undef,   at |-> <<>>, on |-> "week-end", timeout |-> Undef] }
\* the seconds an action hands to contextObj.delay(sec)
DelayArgs == {-1, 2}
\* start(_delay) as called by hand
StartArgs == {Undef, Num(0)}
\* the event names handed to handle(), "completed failed timeout" or "stop"
HandleLists == {{"completed", "failed", "timeout"}, {"stop"}}
\* what a prepare hook does when called
PrepareFns == {"return", "throw"}
\* what a lifecycle handler does when invoked
HandlerKinds == {"return", "throw", "promise"}

(***************************************************************************)
(* Strings are sequences of one-character strings.  NaN is a value of its  *)
(* own; arithmetic on it gives NaN.                                        *)
(***************************************************************************)
Str(chars) == [k |-> "str", v |-> chars]
NaN == [k |-> "nan", v |-> 0]
jsTimes(x, n) == IF x.k = "nan" THEN NaN ELSE Num(x.v * n)
jsPlus(x, y) == IF x.k = "nan" \/ y.k = "nan" THEN NaN ELSE Num(x.v + y.v)

DigitChars == <<"0", "1", "2", "3", "4", "5", "6", "7", "8", "9">>
isDigit(c) == \E i \in 1..10 : DigitChars[i] = c
digitValue(c) == (CHOOSE i \in 1..10 : DigitChars[i] = c) - 1

\* str.indexOf(c) !== -1
contains(str, c) == \E i \in 1..Len(str) : str[i] = c

\* str.replace(c, ''): the first occurrence of c removed
RECURSIVE removeFirst(_, _)
removeFirst(str, c) ==
  IF str = <<>> THEN <<>>
  ELSE IF Head(str) = c THEN Tail(str)
  ELSE <<Head(str)>> \o removeFirst(Tail(str), c)

\* val.split(' '): cur is the item being read, str what is left to read
RECURSIVE splitFrom(_, _)
splitFrom(cur, str) ==
  IF str = <<>> THEN <<cur>>
  ELSE IF Head(str) = " " THEN <<cur>> \o splitFrom(<<>>, Tail(str))
  ELSE splitFrom(Append(cur, Head(str)), Tail(str))
split(str) == splitFrom(<<>>, str)

\* parseInt(str, 10) of a string without sign or white space: the number
\* its leading digits spell, NaN when it starts with no digit
RECURSIVE leadingDigits(_, _)
leadingDigits(acc, str) ==
  IF str = <<>> \/ ~isDigit(Head(str)) THEN acc
  ELSE leadingDigits(acc * 10 + digitValue(Head(str)), Tail(str))
parseInt(str) ==
  IF str = <<>> \/ ~isDigit(Head(str)) THEN NaN ELSE Num(leadingDigits(0, str))

\* type after the four tests of an item (847-861); `var type` is declared
\* without a value, so an item that has none of s, m, h, d leaves type as
\* the item before it left it ("": undefined)
typeAfter(str, type) ==
  IF contains(str, "d") THEN "d"
  ELSE IF contains(str, "h") THEN "h"
  ELSE IF contains(str, "m") THEN "m"
  ELSE IF contains(str, "s") THEN "s"
  ELSE type

\* mul after the four tests of an item: set anew to 1 for every item
mulAfter(str) ==
  IF contains(str, "d") THEN 86400
  ELSE IF contains(str, "h") THEN 3600
  ELSE IF contains(str, "m") THEN 60
  ELSE 1

\* the loop over the items from the i-th on (842-867)
RECURSIVE secondsFrom(_, _, _, _)
secondsFrom(items, i, type, total) ==
  IF i > Len(items) THEN total
  ELSE LET str == items[i]
           type2 == typeAfter(str, type)
       IN  IF type2 = "" THEN Num(0)
           ELSE secondsFrom(items, i + 1, type2,
                  jsPlus(total, jsTimes(parseInt(removeFirst(str, type2)), mulAfter(str))))

(***************************************************************************)
(* getSeconds (taskEntry.js 837-870): a number is clamped to at least 0, a *)
(* string is summed item by item, anything else gives 0.                   *)
(***************************************************************************)
getSeconds(val) ==
  IF val.k = "num" THEN Num(Max(0, val.v))
  ELSE IF val.k = "str" THEN secondsFrom(split(val.v), 1, "", Num(0))
  ELSE Num(0)

(***************************************************************************)
(* getLaunchAt (taskEntry.js 798-834).  d is the list of the fields of     *)
(* "hh:mm[:ss]"; <<>> stands for a value that is not a non-empty string.   *)
(* atInvalid is the validation that makes getLaunchAt return null.         *)
(* nowD is the instant of `new Date()`, currentTs the later Date.now().    *)
(***************************************************************************)
atInvalid(d) ==
  LET h == d[1]
      m == d[2]
      s == IF Len(d) >= 3 THEN d[3] ELSE 0
  IN  h < 0 \/ m < 0 \/ s < 0 \/ h > 24 \/ m > 59 \/ s > 59

getLaunchAt(d, nowD, currentTs) ==
  IF d = <<>> THEN 0
  ELSE
    LET h == d[1]
        m == d[2]
        s == IF Len(d) >= 3 THEN d[3] ELSE 0
        tod == nowD % 86400000
        currentH == tod \div 3600000
        currentM == (tod % 3600000) \div 60000
        currentS == (tod % 60000) \div 1000
        h2 == IF h < currentH THEN h + 24
              ELSE IF h = currentH
                   THEN IF m < currentM THEN h + 24
                        ELSE IF m = currentM
                             THEN IF s < currentS THEN h + 24 ELSE h
                             ELSE h
                   ELSE h
        \* setHours, setMinutes, setSeconds keep the milliseconds of `now`
        targetTs == (nowD - tod) + h2 * 3600000 + m * 60000 + s * 1000 + (nowD % 1000)
    IN  targetTs - currentTs

(***************************************************************************)
(* The calendar moment() reads.  Days are counted from the epoch: day 0 is *)
(* the 1st of January of a common year that starts on a Sunday, the year   *)
(* after it is a leap year.  Months are counted from 1 on, month 13 is the *)
(* January of the second year.  Local time has no daylight-saving shift.   *)
(***************************************************************************)
MonthDays == <<31, 28, 31, 30, 31, 30, 31, 31, 30, 31, 30, 31>>
\* moment's daysInMonth
daysInMonth(m) == IF m = 14 THEN 29 ELSE MonthDays[((m - 1) % 12) + 1]

\* the day startOf('month') of month m falls on
RECURSIVE monthStart(_)
monthStart(m) == IF m = 1 THEN 0 ELSE monthStart(m - 1) + daysInMonth(m - 1)

\* the month a day falls in
RECURSIVE monthFrom(_, _)
monthFrom(m, day) ==
  IF day < monthStart(m) + daysInMonth(m) THEN m ELSE monthFrom(m + 1, day)
monthOf(day) == monthFrom(1, day)

Min(a, b) == IF a <= b THEN a ELSE b

(***************************************************************************)
(* getLaunchOn (taskEntry.js 752-786), the month anchors (757-770), at the *)
(* instant ms milliseconds into the given day.  The result is the day at   *)
(* whose 00:00:00.000 the target stands when the function returns: the     *)
(* delay returned is (that day - day) * 86400000 - ms.  add(1, 'month')    *)
(* keeps the day of the month, cut to the length of the month it lands in. *)
(***************************************************************************)
launchOnMonthDay(d, day, ms) ==
  LET m == monthOf(day)
      target == IF d = "month-start" THEN monthStart(m)
                ELSE monthStart(m) + daysInMonth(m) - 1
      negative == target < day \/ (target = day /\ ms > 0)
      dayOfMonth == target - monthStart(m) + 1
  IN  IF negative
      THEN monthStart(m + 1) + Min(dayOfMonth, daysInMonth(m + 1)) - 1
      ELSE target

(***************************************************************************)
(* getLaunchOn (taskEntry.js 752-786).  target.unix() is in whole seconds; *)
(* startOf('week') is the Sunday 00:00 before ts, endOf('week')            *)
(* .startOf('day') the Saturday 00:00 of that week.                        *)
(***************************************************************************)
getLaunchOn(d, ts) ==
  IF d = "" THEN 0
  ELSE IF d \in {"week-start", "week-end"}
  THEN LET weekStart == ts - (ts % 604800000)
           target == IF d = "week-start" THEN weekStart ELSE weekStart + 6 * 86400000
           count == target - ts
           target2 == IF count < 0 THEN target + 604800000 ELSE target
       IN  target2 - ts
  ELSE IF d \in {"month-start", "month-end"}
  THEN LET day == ts \div 86400000
       IN  (launchOnMonthDay(d, day, ts % 86400000) - day) * 86400000 - (ts % 86400000)
  ELSE 0

VARIABLES
  now,          \* Date.now()
  persist,      \* thorin.persist(PERSIST_KEY): task name -> value
  actions,      \* this[actions]: name -> the function registered (0: none)
  schedule,     \* this[schedule]
  events,       \* this[events]: event -> handlers in registration order
  timer,        \* this[timer]: the handle of the last setTimeout (0: null)
  timers,       \* the event loop's pending doCreate timeouts
  armCount,     \* setTimeout calls made by start(): the next handle
  runs,         \* the runs (createContext calls) not yet collected, in order
  runCount,     \* createContext calls made
  stops,        \* one record per stop() call, in order
  booted,       \* the next-tick start of addTask has run
  startCalls,   \* calls of start() from outside (the boot one included)
  stopped,      \* stop() was called and start() was not called since
  persistWrites, \* calls of thorin.persist(PERSIST_KEY, data)
  other,        \* the task registered next to this one: what its TaskEntry holds
  prepares,     \* this[prepares]: what each hook does when called, in order
  call          \* the last call of a function of the module made on its own:
                \* its argument, the clock it read (day, ms) and its result

vars == <<now, persist, actions, schedule, events, timer, timers, armCount,
          runs, runCount, stops, booted, startCalls, stopped, persistWrites, other, call,
          prepares>>

\* the other task as its caller configured it: one action, scheduled with a
\* repeating interval, a handler of failed; no timer armed yet (arms counts
\* its setTimeout calls)
OtherAtBoot ==
  [actions |-> {"a"}, schedule |-> [items |-> <<"a">>, timer |-> 1],
   events |-> {"failed"}, timer |-> 0, arms |-> 0]

\* no function was called on its own
NoCall == [fn |-> "", arg |-> "", day |-> 0, ms |-> 0, res |-> 0]

NoOpt == [delay |-> Undef, timer |-> Undef, at |-> <<>>, on |-> "", timeout |-> Undef]
\* this[schedule] = null
NoSchedule == [items |-> <<>>, opt |-> NoOpt]

(***************************************************************************)
(* constructor (taskEntry.js 471-480), in a process whose persistence      *)
(* store may hold an entry of an earlier process.                          *)
(***************************************************************************)
Init ==
  /\ now = BootTime
  /\ persist \in [TaskNames -> PersistedAtBoot]
  /\ persist[OtherTask] = Num(1000)
  /\ actions = [n \in ActionNames |-> 0]
  /\ schedule = NoSchedule
  /\ events = [e \in EVENTS |-> <<>>]
  /\ timer = 0
  /\ timers = {}
  /\ armCount = 0
  /\ runs = <<>>
  /\ runCount = 0
  /\ stops = <<>>
  /\ booted = FALSE
  /\ startCalls = 0
  /\ stopped = FALSE
  /\ persistWrites = 0
  /\ other = OtherAtBoot
  /\ call = NoCall
  /\ prepares = <<>>

(***************************************************************************)
(* Configuration: the caller of addTask configures the task in the same    *)
(* synchronous stretch, before the next-tick start (index.js 93-105), so   *)
(* these calls are modelled before the boot only.                          *)
(***************************************************************************)
\* the action registered last kept
ActionCall_overwrites(name, fn) ==
  /\ ~booted
  /\ actions' = [actions EXCEPT ![name] = fn]
  /\ UNCHANGED <<prepares, other, call, now, persist, schedule, events, timer, timers, armCount, runs,
                 runCount, stops, booted, startCalls, stopped, persistWrites>>

\* action(name, fn) (taskEntry.js 493-500)
ActionCall(name, fn) ==
  /\ ~booted
  /\ actions' = IF actions[name] # 0 THEN actions ELSE [actions EXCEPT ![name] = fn]
  /\ UNCHANGED <<prepares, other, call, now, persist, schedule, events, timer, timers, armCount, runs, runCount,
                 stops, booted, startCalls, stopped, persistWrites>>

\* the options as schedule() rewrites them (taskEntry.js 523-533)
normalizeOpt(opt) ==
  LET timeout == IF Truthy(opt.timeout) THEN getSeconds(opt.timeout) ELSE opt.timeout
  IN  IF opt.at # <<>>
      THEN [opt EXCEPT !.timeout = timeout,
                       !.at = IF atInvalid(opt.at) THEN <<>> ELSE opt.at]
      ELSE [opt EXCEPT !.timeout = timeout,
                       !.delay = IF Truthy(opt.delay) THEN getSeconds(opt.delay) ELSE opt.delay,
                       !.timer = IF Truthy(opt.timer) THEN getSeconds(opt.timer) ELSE opt.timer]

\* this[actions][name] (taskEntry.js 536): the function registered under
\* the name, else the one inherited under it, else undefined (0)
actionOf(name) ==
  IF name \in ActionNames /\ actions[name] # 0 THEN actions[name]
  ELSE IF name \in ObjectPrototypeNames THEN ObjectPrototypeFn
  ELSE 0

\* fnCalls: the listed names under which this[actions] holds a function, in
\* the caller's order (534-545)
RECURSIVE fnCalls(_)
fnCalls(names) ==
  IF names = <<>> THEN <<>>
  ELSE LET name == Head(names)
       IN  IF actionOf(name) = 0
           THEN fnCalls(Tail(names))
           ELSE <<[name |-> name, fn |-> actionOf(name)]>> \o fnCalls(Tail(names))

\* actions[name] of a name that was never registered nor is inherited is
\* undefined
registered(names) == SelectSeq(names, LAMBDA n : n \in ActionNames \cup ObjectPrototypeNames)

\* the schedule bound anew by every call
ScheduleCall_rebinds(names, opt) ==
  /\ ~booted
  /\ schedule' =
       IF fnCalls(registered(names)) = <<>> THEN schedule
       ELSE [items |-> fnCalls(registered(names)), opt |-> normalizeOpt(opt)]
  /\ UNCHANGED <<prepares, other, call, now, persist, actions, events, timer, timers, armCount, runs,
                 runCount, stops, booted, startCalls, stopped, persistWrites>>

\* this[schedule] after schedule(actionNames, opt) called with a list of
\* names (taskEntry.js 514-517, 523-555)
scheduled(names, opt) ==
  IF schedule # NoSchedule THEN schedule
  ELSE IF fnCalls(registered(names)) = <<>> THEN schedule
  ELSE [items |-> fnCalls(registered(names)), opt |-> normalizeOpt(opt)]

\* schedule(actionNames, opt) (taskEntry.js 513-556)
ScheduleCall(names, opt) ==
  /\ ~booted
  /\ schedule' = scheduled(names, opt)
  /\ UNCHANGED <<prepares, other, call, now, persist, actions, events, timer, timers, armCount, runs, runCount,
                 stops, booted, startCalls, stopped, persistWrites>>

\* schedule(actionNames, opt) with any value as actionNames (taskEntry.js
\* 513-556): a string is taken as the list of that one name (518), a value
\* that is no Array ends the call (519-522).  arg.names is the list or the
\* string's name.  The call is recorded, one call per task.
ScheduleArgCall(arg, opt) ==
  /\ ~booted
  /\ call.fn = ""
  /\ call' = [fn |-> "schedule", arg |-> arg, day |-> 0, ms |-> 0, res |-> 0]
  /\ schedule' = IF arg.k \in {"string", "array"} THEN scheduled(arg.names, opt) ELSE schedule
  /\ UNCHANGED <<prepares, other, now, persist, actions, events, timer, timers, armCount, runs,
                 runCount, stops, booted, startCalls, stopped, persistWrites>>

\* prepare(fn) (taskEntry.js 485-488): the hook is pushed on this[prepares]
PrepareCall(fn) ==
  /\ ~booted
  /\ Len(prepares) < MaxPrepares
  /\ prepares' = Append(prepares, fn)
  /\ UNCHANGED <<other, call, now, persist, actions, schedule, events, timer, timers, armCount,
                 runs, runCount, stops, booted, startCalls, stopped, persistWrites>>

\* handle(eventNames, fn) (taskEntry.js 561-576): the function is pushed
\* on the list of every event named
HandleUpTo(max, eventNames, fn) ==
  /\ ~booted
  /\ \A e \in eventNames : Len(events[e]) < max
  /\ events' = [e \in EVENTS |-> IF e \in eventNames THEN Append(events[e], fn) ELSE events[e]]
  /\ UNCHANGED <<prepares, other, call, now, persist, actions, schedule, timer, timers, armCount, runs, runCount,
                 stops, booted, startCalls, stopped, persistWrites>>

HandleCall(eventNames, fn) == HandleUpTo(MaxHandlers, eventNames, fn)

(***************************************************************************)
(* start                                                                   *)
(***************************************************************************)
\* a timestamp that has passed counted as a negative delay
getStartupDelay_unclamped ==
  IF ~IsNum(persist[TaskName]) THEN 0
  ELSE persist[TaskName].v - now

\* getStartupDelay (taskEntry.js 451-459)
getStartupDelay ==
  IF ~IsNum(persist[TaskName]) THEN 0
  ELSE Max(0, persist[TaskName].v - now)

\* the store written anew with the entry of the one task
setStartupDelayOf_alone(name, delayMs) ==
  [n \in TaskNames |-> IF n = name THEN Num(now + delayMs) ELSE Undef]

\* the delay stored in place of the instant it ends at
setStartupDelayOf_delayOnly(name, delayMs) ==
  [persist EXCEPT ![name] = Num(delayMs)]

\* setStartupDelay(taskObj, delayMs) (taskEntry.js 462-467): the store after
\* the write, the entries of the other tasks read and written back
setStartupDelayOf(name, delayMs) ==
  [persist EXCEPT ![name] = Num(now + delayMs)]

\* setStartupDelay (taskEntry.js 462-467) called by the task modelled
setStartupDelay(delayMs) == setStartupDelayOf(TaskName, delayMs)

\* clearTimeout(handle) on the event loop's pending timeouts
clearTimeout(handle, pending) == {t \in pending : t.id # handle}

\* the persisted offset never added
resumesPersisted_never(opt) == FALSE

\* the persisted offset added with every repeating interval
resumesPersisted_anyInterval(opt) == IsNum(opt.timer)

\* item.opt.timer >= 60 (taskEntry.js 598)
resumesPersisted(opt) == IsNum(opt.timer) /\ opt.timer.v >= 60

\* the configured initial delay added to a delay handed to start()
armDelay_configuredAdded(_delay, _firstStart) ==
  LET opt == schedule.opt
  IN  IF opt.at # <<>> \/ opt.on # ""
      THEN getLaunchAt(opt.at, now, now) + getLaunchOn(opt.on, now)
      ELSE (IF IsNum(_delay) THEN _delay.v ELSE 0)
           + (IF Truthy(opt.delay) THEN opt.delay.v * 1000 ELSE 0)
           + (IF _firstStart /\ resumesPersisted(opt) THEN getStartupDelay ELSE 0)

\* the delay start() hands to setTimeout (taskEntry.js 590-603, 615)
armDelay(_delay, _firstStart) ==
  LET opt == schedule.opt
  IN  IF opt.at # <<>> \/ opt.on # ""
      THEN getLaunchAt(opt.at, now, now) + getLaunchOn(opt.on, now)
      ELSE (IF IsNum(_delay) THEN _delay.v
            ELSE IF Truthy(opt.delay) THEN opt.delay.v * 1000 ELSE 0)
           + (IF _firstStart /\ resumesPersisted(opt) THEN getStartupDelay ELSE 0)

\* the armed timeout left pending
cancelArmed_kept == timers

\* the timeouts pending once start() has cleared this[timer] (586-589)
cancelArmed == IF timer # 0 THEN clearTimeout(timer, timers) ELSE timers

\* start(_delay, _firstStart) (taskEntry.js 581-617); setTimeout fires its
\* callback no earlier than the delay, a negative delay counting as none
start(_delay, _firstStart) ==
  IF schedule = NoSchedule
  THEN UNCHANGED <<timer, timers, armCount>>
  ELSE LET delay == armDelay(_delay, _firstStart)
       IN  /\ armCount' = armCount + 1
           /\ timer' = armCount + 1
           /\ timers' = cancelArmed \cup
                 {[id |-> armCount + 1, due |-> now + Max(0, delay),
                   delay |-> delay, first |-> _firstStart, arg |-> _delay]}

\* addTask's process.nextTick: taskObj.start(undefined, true) (index.js 100-103)
Boot ==
  /\ ~booted
  /\ booted' = TRUE
  /\ startCalls' = startCalls + 1
  /\ start(Undef, TRUE)
  /\ UNCHANGED <<prepares, other, call, now, persist, actions, schedule, events, runs, runCount, stops, stopped,
                 persistWrites>>

\* start(_delay) called by the application
Start(_delay) ==
  /\ booted
  /\ startCalls < 1 + MaxStarts
  /\ startCalls' = startCalls + 1
  /\ stopped' = FALSE
  /\ start(_delay, FALSE)
  /\ UNCHANGED <<prepares, other, call, now, persist, actions, schedule, events, runs, runCount, stops, booted,
                 persistWrites>>

(***************************************************************************)
(* A run: one createContext call.                                          *)
(*   ctx        the TaskContext: its own keys stopped, start_at and end_at *)
(*              (-1: null or deleted), and the delay kept under a symbol   *)
(*   isDone     the closure's isDone                                       *)
(*   tt         _timeoutTimer: none, pending, cleared or fired             *)
(*   cur        the action of the pipeline in flight (0: none)             *)
(*   invoked    the actions invoked, in order; failed: the one that failed *)
(*   pdone      the callback of thorin.series was called                   *)
(*   evs        the terminal events dispatched, with their error           *)
(*   hidx       the handler whose promise the dispatch waits for (0: none; *)
(*              below 0: the handler that threw out of the series)         *)
(*   hcalls     the handlers invoked for the terminal event, in order      *)
(*   terminated onContextTerminated has run                                *)
(*   first      the run was created by the timer of a first start          *)
(*   sync       the calls createContext made before it returned, in order  *)
(***************************************************************************)
newContext ==
  [stopped |-> FALSE, destroyed |-> FALSE, delay |-> 0, start_at |-> now, end_at |-> -1]

\* TaskContext.stop (taskContext.js 26-29)
ctxStop(ctx) == [ctx EXCEPT !.stopped = TRUE]

\* TaskContext.destroy (taskContext.js 31-35): Object.keys lists the string
\* keys only, so the delay kept under a symbol survives
ctxDestroy(ctx) ==
  [ctx EXCEPT !.stopped = FALSE, !.destroyed = TRUE, !.start_at = -1, !.end_at = -1]

\* the timeout timer createContext sets (taskEntry.js 681-689)
newTimeout(opt) ==
  IF Truthy(opt.timeout)
  THEN [st |-> "pending", due |-> now + opt.timeout.v * 1000]
  ELSE [st |-> "none", due |-> 0]

\* every schedule taken as repeating
repeats_always(opt) == TRUE

\* typeof opt.timer === 'undefined' (taskEntry.js 668), negated
repeats(opt) == opt.timer.k # "undef"

\* timerMs of onContextTerminated (taskEntry.js 669-672)
nextTimerMs(opt, ctx) ==
  LET nextDelay == getSeconds(Num(ctx.delay)).v * 1000
      timerMs == opt.timer.v * 1000 + nextDelay
  IN  IF timerMs <= 0 THEN 1 ELSE timerMs

\* onContextTerminated (taskEntry.js 665-679) of run i, whose record is r
onContextTerminated(i, r) ==
  LET r2 == [r EXCEPT !.ctx = ctxDestroy(@), !.isDone = TRUE, !.terminated = TRUE,
                      !.hidx = 0]
  IN  /\ runs' = [runs EXCEPT ![i] = r2]
      /\ IF ~repeats(schedule.opt)
         THEN UNCHANGED <<persist, persistWrites, timer, timers, armCount>>
         ELSE LET timerMs == nextTimerMs(schedule.opt, r2.ctx)
              IN  /\ persist' = setStartupDelay(timerMs)
                  /\ persistWrites' = persistWrites + 1
                  /\ start(Num(timerMs), FALSE)

\* a handler that throws taken to end the series
RECURSIVE pendingFrom_throwStops(_, _, _)
pendingFrom_throwStops(from, n, kinds) ==
  IF from > n THEN 0
  ELSE IF kinds[from] = "promise" THEN from
  ELSE IF kinds[from] \in {"null", "throw"} THEN 0 - from
  ELSE pendingFrom_throwStops(from + 1, n, kinds)

\* async.series over the handlers from..n (taskEntry.js 716-739): the first
\* handler that returns a promise is waited for (0: every handler settled
\* when it returned or threw, and done() is called).  A handler that
\* returns null passes typeof resObj === 'object' and the read of
\* resObj.then throws outside the try (727): its onEvent is never called and
\* the series goes no further (the handler's position, negated)
RECURSIVE pendingFrom(_, _, _)
pendingFrom(from, n, kinds) ==
  IF from > n THEN 0
  ELSE IF kinds[from] = "promise" THEN from
  ELSE IF kinds[from] = "null" THEN 0 - from
  ELSE pendingFrom(from + 1, n, kinds)

\* the handlers of the list invoked in the stretch that starts with the
\* one at from
invokedFrom(from, list, kinds) ==
  LET p == pendingFrom(from, Len(list), kinds)
      last == IF p = 0 THEN Len(list) ELSE IF p > 0 THEN p ELSE 0 - p
  IN  SubSeq(list, from, last)

\* _handleEvent(event, contextObj, data, onContextTerminated) (709-740)
handleRunEvent(i, r, event, data, kinds) ==
  LET p == pendingFrom(1, Len(events[event]), kinds)
      r2 == [r EXCEPT !.evs = Append(@, [ev |-> event, err |-> data]), !.hidx = p,
                      !.hcalls = @ \o invokedFrom(1, events[event], kinds)]
  IN  IF p = 0
      THEN onContextTerminated(i, r2)
      ELSE /\ runs' = [runs EXCEPT ![i] = r2]
           /\ UNCHANGED <<persist, persistWrites, timer, timers, armCount>>

\* the guard left out
alreadyDone_never(r) == FALSE

\* if (isDone) return (taskEntry.js 683, 692)
alreadyDone(r) == r.isDone

\* the error ignored
terminalEvent_completed(err) == "completed"

\* the event the pipeline's callback dispatches (taskEntry.js 695-698)
terminalEvent(err) == IF err # 0 THEN "failed" ELSE "completed"

\* the callback of thorin.series (taskEntry.js 690-699); err 0 is no error
seriesCallback(i, r, err, kinds) ==
  LET r1 == [r EXCEPT !.cur = 0, !.pdone = TRUE,
                      !.tt = IF @.st = "pending" THEN [@ EXCEPT !.st = "cleared"] ELSE @]
  IN  IF alreadyDone(r1)
      THEN /\ runs' = [runs EXCEPT ![i] = r1]
           /\ UNCHANGED <<persist, persistWrites, timer, timers, armCount>>
      ELSE handleRunEvent(i, [r1 EXCEPT !.isDone = TRUE, !.ctx.end_at = now],
                          terminalEvent(err), err, kinds)

\* a run nothing refers to any more: terminated, its pipeline ended.  Its
\* record is kept until the next run is created
finished(r) == r.terminated /\ r.cur = 0

\* the loop left at the first hook that throws
RECURSIVE prepareCalls_throwEnds(_, _)
prepareCalls_throwEnds(i, hooks) ==
  IF i > Len(hooks) THEN <<>>
  ELSE IF hooks[i] = "throw" THEN <<[k |-> "prepare", n |-> i]>>
  ELSE <<[k |-> "prepare", n |-> i]>> \o prepareCalls_throwEnds(i + 1, hooks)

\* step zero of createContext (taskEntry.js 647-655): the hooks called from
\* the i-th on, a throw caught and the loop continued
RECURSIVE prepareCalls(_, _)
prepareCalls(i, hooks) ==
  IF i > Len(hooks) THEN <<>>
  ELSE <<[k |-> "prepare", n |-> i]>> \o prepareCalls(i + 1, hooks)

\* the calls createContext makes before it returns: the hooks, then the
\* first call of thorin.series, which invokes the first action (656-661, 690)
createContextCalls(hooks) == prepareCalls(1, hooks) \o <<[k |-> "action", n |-> 1]>>

\* doCreate and createContext (taskEntry.js 604-613, 642-700): the timeout
\* fires, the context is created and thorin.series invokes the first action
TimerFire(t) ==
  /\ t \in timers
  /\ now >= t.due
  /\ runCount < MaxRuns
  /\ timers' = clearTimeout(timer, timers \ {t})
  /\ timer' = 0
  /\ runCount' = runCount + 1
  /\ runs' = Append(SelectSeq(runs, LAMBDA r : ~finished(r)),
       [ctx |-> newContext, isDone |-> FALSE, tt |-> newTimeout(schedule.opt),
        cur |-> 1, invoked |-> <<1>>, failed |-> 0, pdone |-> FALSE, evs |-> <<>>,
        hidx |-> 0, hcalls |-> <<>>, terminated |-> FALSE, first |-> t.first,
        sync |-> createContextCalls(prepares)])
  /\ UNCHANGED <<prepares, other, call, now, persist, actions, schedule, events, armCount, stops, booted,
                 startCalls, stopped, persistWrites>>

\* the action in flight calls contextObj.stop() (taskContext.js 26-29)
ActionStops(i) ==
  /\ i \in 1..Len(runs)
  /\ runs[i].cur # 0
  /\ ~runs[i].ctx.stopped
  /\ runs' = [runs EXCEPT ![i].ctx = ctxStop(@)]
  /\ UNCHANGED <<prepares, other, call, runCount, now, persist, actions, schedule, events, timer, timers, armCount,
                 stops, booted, startCalls, stopped, persistWrites>>

\* the action in flight calls contextObj.delay(sec) (taskContext.js 40-44)
ActionDelays(i, sec) ==
  /\ i \in 1..Len(runs)
  /\ runs[i].cur # 0
  /\ runs[i].ctx.delay = 0
  /\ runs' = [runs EXCEPT ![i].ctx.delay = sec]
  /\ UNCHANGED <<prepares, other, call, runCount, now, persist, actions, schedule, events, timer, timers, armCount,
                 stops, booted, startCalls, stopped, persistWrites>>

\* the promise of the action in flight settles, and thorin.series goes on:
\* an error ends the series with it; otherwise the next call runs, which
\* ends the series when the context is stopped and invokes its action when
\* not (taskEntry.js 656-661, 690)
ActionSettle(i, ok, kinds) ==
  /\ i \in 1..Len(runs)
  /\ runs[i].cur # 0
  /\ LET r == runs[i]
         k == r.cur
     IN  IF ~ok
         THEN seriesCallback(i, [r EXCEPT !.failed = k], k, kinds)
         ELSE IF k = Len(schedule.items) \/ r.ctx.stopped
         THEN seriesCallback(i, r, 0, kinds)
         ELSE /\ runs' = [runs EXCEPT ![i].cur = k + 1, ![i].invoked = Append(@, k + 1)]
              /\ UNCHANGED <<persist, persistWrites, timer, timers, armCount>>
  /\ UNCHANGED <<prepares, other, call, now, actions, schedule, events, runCount, stops, booted, startCalls, stopped>>

\* the timeout timer of run i fires (taskEntry.js 682-688)
TimeoutFire(i, kinds) ==
  /\ i \in 1..Len(runs)
  /\ runs[i].tt.st = "pending"
  /\ now >= runs[i].tt.due
  /\ LET r1 == [runs[i] EXCEPT !.tt.st = "fired"]
     IN  IF alreadyDone(r1)
         THEN /\ runs' = [runs EXCEPT ![i] = r1]
              /\ UNCHANGED <<persist, persistWrites, timer, timers, armCount>>
         ELSE handleRunEvent(i, [r1 EXCEPT !.isDone = TRUE, !.ctx = ctxStop([@ EXCEPT !.end_at = now])],
                             "timeout", 0, kinds)
  /\ UNCHANGED <<prepares, other, call, now, actions, schedule, events, runCount, stops, booted, startCalls, stopped>>

\* the promise a handler of run i's terminal event returned settles, either
\* way (taskEntry.js 727-733), and async.series goes on
HandlerSettle(i, kinds) ==
  /\ i \in 1..Len(runs)
  /\ runs[i].hidx > 0
  /\ LET event == runs[i].evs[Len(runs[i].evs)].ev
         p == pendingFrom(runs[i].hidx + 1, Len(events[event]), kinds)
         r == [runs[i] EXCEPT !.hcalls = @ \o invokedFrom(runs[i].hidx + 1, events[event], kinds)]
     IN  IF p = 0
         THEN onContextTerminated(i, r)
         ELSE /\ runs' = [runs EXCEPT ![i] = [r EXCEPT !.hidx = p]]
              /\ UNCHANGED <<persist, persistWrites, timer, timers, armCount>>
  /\ UNCHANGED <<prepares, other, call, now, actions, schedule, events, runCount, stops, booted, startCalls, stopped>>

\* the callback called while handlers are still to settle
calledBack_atOnce(p) == 1

\* () => fn && fn() (taskEntry.js 624), the done of the stop dispatch: the
\* calls of fn made when the series is at p
calledBack(p) == IF p = 0 THEN 1 ELSE 0

\* stop(fn) (taskEntry.js 622-625): this[timer] keeps the cleared handle
Stop(kinds) ==
  /\ booted
  /\ Len(stops) < MaxStops
  /\ timers' = IF timer # 0 THEN clearTimeout(timer, timers) ELSE timers
  /\ LET p == pendingFrom(1, Len(events["stop"]), kinds)
     IN  stops' = Append(stops, [hidx |-> p, cb |-> calledBack(p), ctx |-> "null",
                                 hcalls |-> invokedFrom(1, events["stop"], kinds)])
  /\ stopped' = TRUE
  /\ UNCHANGED <<prepares, other, call, now, persist, actions, schedule, events, timer, armCount, runs, runCount,
                 booted, startCalls, persistWrites>>

\* the promise a stop handler returned settles
StopHandlerSettle(j, kinds) ==
  /\ j \in 1..Len(stops)
  /\ stops[j].hidx > 0
  /\ LET p == pendingFrom(stops[j].hidx + 1, Len(events["stop"]), kinds)
     IN  stops' = [stops EXCEPT ![j].hidx = p,
                                ![j].cb = @ + calledBack(p),
                                ![j].hcalls = @ \o invokedFrom(stops[j].hidx + 1,
                                                                events["stop"], kinds)]
  /\ UNCHANGED <<prepares, other, call, now, persist, actions, schedule, events, timer, timers, armCount,
                 runs, runCount, booted, startCalls, stopped, persistWrites>>

(***************************************************************************)
(* The wall clock moves to the due time of a pending timeout; a timeout    *)
(* may fire late, after the clock has moved to a later due time.           *)
(***************************************************************************)
Deadlines ==
  {t.due : t \in timers} \cup
  {runs[i].tt.due : i \in {j \in 1..Len(runs) : runs[j].tt.st = "pending"}}

TickTo(d) ==
  /\ d \in Deadlines
  /\ d > now
  /\ now' = d
  /\ UNCHANGED <<prepares, other, call, persist, actions, schedule, events, timer, timers, armCount, runs, runCount,
                 stops, booted, startCalls, stopped, persistWrites>>

Kinds == [1..MaxHandlers -> HandlerKinds]

(***************************************************************************)
(* Spec: a task that is configured, started once by addTask and left to    *)
(* itself.                                                                 *)
(***************************************************************************)
Configure ==
  \/ \E name \in ActionNames, fn \in ActionFns : ActionCall(name, fn)
  \/ \E names \in NameLists, opt \in OptChoices : ScheduleCall(names, opt)
  \/ \E eventNames \in HandleLists, fn \in HandlerFns : HandleCall(eventNames, fn)

Pipeline ==
  \/ \E t \in timers : TimerFire(t)
  \/ \E i \in 1..MaxRuns, ok \in BOOLEAN, kinds \in Kinds : ActionSettle(i, ok, kinds)
  \/ \E i \in 1..MaxRuns, kinds \in Kinds : TimeoutFire(i, kinds)
  \/ \E i \in 1..MaxRuns, kinds \in Kinds : HandlerSettle(i, kinds)
  \/ \E d \in Deadlines : TickTo(d)

Next ==
  \/ Configure
  \/ Boot
  \/ Pipeline
  \/ \E i \in 1..MaxRuns : ActionStops(i)
  \/ \E i \in 1..MaxRuns, sec \in DelayArgs : ActionDelays(i, sec)

Spec == Init /\ [][Next]_vars

(***************************************************************************)
(* SpecStart: a task without handlers that is started by addTask and then  *)
(* also by the application, calling start() with a delay or without one.   *)
(***************************************************************************)
OptChoicesStart ==
  { [delay |-> Num(1), timer |-> Undef,   at |-> <<>>, on |-> "", timeout |-> Undef],
    [delay |-> Undef,  timer |-> Num(1),  at |-> <<>>, on |-> "", timeout |-> Num(2)],
    [delay |-> Num(1), timer |-> Num(60), at |-> <<>>, on |-> "", timeout |-> Undef],
    [delay |-> Undef,  timer |-> Num(60), at |-> <<0, 0, 7>>, on |-> "", timeout |-> Undef],
    [delay |-> Num(1), timer |-> Undef,   at |-> <<>>, on |-> "week-end", timeout |-> Undef] }

NextStart ==
  \/ \E name \in ActionNames, fn \in ActionFns : ActionCall(name, fn)
  \/ \E names \in NameLists, opt \in OptChoicesStart : ScheduleCall(names, opt)
  \/ Boot
  \/ \E _delay \in StartArgs : Start(_delay)
  \/ \E t \in timers : TimerFire(t)
  \/ \E i \in 1..MaxRuns, ok \in BOOLEAN, kinds \in Kinds : ActionSettle(i, ok, kinds)
  \/ \E i \in 1..MaxRuns, kinds \in Kinds : TimeoutFire(i, kinds)
  \/ \E d \in Deadlines : TickTo(d)
  \/ \E i \in 1..MaxRuns, sec \in DelayArgs : ActionDelays(i, sec)

SpecStart == Init /\ [][NextStart]_vars

(***************************************************************************)
(* SpecCtl: the application also calls start() and stop() by hand, at any  *)
(* moment after the boot.  The store holds no entry of an earlier process, *)
(* and the actions of the pipeline leave their context alone.              *)
(***************************************************************************)
OptChoicesCtl ==
  { [delay |-> Num(1), timer |-> Undef,  at |-> <<>>, on |-> "", timeout |-> Num(2)],
    [delay |-> Undef,  timer |-> Num(1), at |-> <<>>, on |-> "", timeout |-> Undef],
    [delay |-> Undef,  timer |-> Num(1), at |-> <<>>, on |-> "", timeout |-> Num(2)] }

InitCtl == Init /\ persist[TaskName] = Undef

NextCtl ==
  \/ \E name \in ActionNames, fn \in ActionFns : ActionCall(name, fn)
  \/ \E names \in NameLists, opt \in OptChoicesCtl : ScheduleCall(names, opt)
  \/ \E eventNames \in HandleLists, fn \in HandlerFns : HandleCall(eventNames, fn)
  \/ Boot
  \/ Pipeline
  \/ \E d \in StartArgs : Start(d)
  \/ \E kinds \in Kinds : Stop(kinds)
  \/ \E j \in 1..MaxStops, kinds \in Kinds : StopHandlerSettle(j, kinds)

SpecCtl == InitCtl /\ [][NextCtl]_vars

(***************************************************************************)
(* SpecAt: getLaunchAt as the first start applies it, for clock times and  *)
(* current times drawn around the target second, the ends of a minute, of  *)
(* an hour and of the day.                                                 *)
(***************************************************************************)
AtTargets == {<<0, 0>>, <<0, 0, 7>>, <<0, 1>>, <<1, 0, 0>>, <<12, 30>>, <<23, 59, 59>>, <<24, 0>>}
AtNows ==
  { h * 3600000 + m * 60000 + s * 1000 + ms :
      h \in {0, 1, 12, 23}, m \in {0, 1, 30, 59}, s \in {0, 7, 59}, ms \in {0, 1, 999} }

InitAt ==
  /\ now \in AtNows
  /\ persist = [n \in TaskNames |-> Undef]
  /\ actions = [n \in ActionNames |-> 0]
  /\ schedule = NoSchedule
  /\ events = [e \in EVENTS |-> <<>>]
  /\ timer = 0
  /\ timers = {}
  /\ armCount = 0
  /\ runs = <<>>
  /\ runCount = 0
  /\ stops = <<>>
  /\ booted = FALSE
  /\ startCalls = 0
  /\ stopped = FALSE
  /\ persistWrites = 0
  /\ other = OtherAtBoot
  /\ call = NoCall
  /\ prepares = <<>>

NextAt ==
  \/ ActionCall("a", 1)
  \/ \E d \in AtTargets :
       ScheduleCall(<<"a">>, [delay |-> Undef, timer |-> Undef, at |-> d, on |-> "",
                              timeout |-> Undef])
  \/ Boot

SpecAt == InitAt /\ [][NextAt]_vars

(***************************************************************************)
(* SpecOn: getLaunchOn called with a month anchor at an instant of the two *)
(* years of the calendar.  The delay it returns is kept as the day of the  *)
(* target, the numbers of milliseconds being beyond the model's integers.  *)
(***************************************************************************)
MonthAnchors == {"month-start", "month-end"}
\* the days of the two years
CalendarDays == 0..(monthStart(25) - 1)
\* the instants of a day moment() is called at: its first and second
\* millisecond, noon, its last millisecond
DayInstants == {0, 1, 12 * 3600000, 86400000 - 1}

LaunchOnCall(d, day, ms) ==
  /\ call = NoCall
  /\ ~booted
  /\ call' = [fn |-> "getLaunchOn", arg |-> d, day |-> day, ms |-> ms,
              res |-> launchOnMonthDay(d, day, ms)]
  /\ UNCHANGED <<prepares, other, now, persist, actions, schedule, events, timer, timers, armCount, runs,
                 runCount, stops, booted, startCalls, stopped, persistWrites>>

NextOn ==
  \E d \in MonthAnchors, day \in CalendarDays, ms \in DayInstants : LaunchOnCall(d, day, ms)

SpecOn == Init /\ [][NextOn]_vars

(***************************************************************************)
(* SpecDur: getSeconds called with a number, with undefined or with a      *)
(* string of up to MaxStrLen characters.                                   *)
(***************************************************************************)
DurationChars == {"1", "2", "s", "m", "h", "d", "x", " "}
DurationStrings == UNION {[1..n -> DurationChars] : n \in 0..MaxStrLen}
DurationInputs ==
  {Undef} \cup {Num(n) : n \in {-5, 0, 90}} \cup {Str(str) : str \in DurationStrings}

SecondsCall(val) ==
  /\ call = NoCall
  /\ ~booted
  /\ call' = [fn |-> "getSeconds", arg |-> val, day |-> 0, ms |-> 0, res |-> getSeconds(val)]
  /\ UNCHANGED <<prepares, other, now, persist, actions, schedule, events, timer, timers, armCount, runs,
                 runCount, stops, booted, startCalls, stopped, persistWrites>>

NextDur == \E val \in DurationInputs : SecondsCall(val)

SpecDur == Init /\ [][NextDur]_vars

(***************************************************************************)
(* SpecTwo: the task of Spec with the other task running next to it.  A    *)
(* run of the other task terminates: its onContextTerminated writes the    *)
(* other task's entry of the store and its start() arms its timer          *)
(* (taskEntry.js 665-679, 581-617, with this the other TaskEntry).         *)
(***************************************************************************)
OtherRearms ==
  /\ booted
  /\ other.arms < MaxOtherArms
  /\ persist' = setStartupDelayOf(OtherTask, other.schedule.timer * 1000)
  /\ other' = [other EXCEPT !.arms = @ + 1, !.timer = other.arms + 1]
  /\ UNCHANGED <<prepares, call, now, actions, schedule, events, timer, timers, armCount, runs,
                 runCount, stops, booted, startCalls, stopped, persistWrites>>

NextTwo ==
  \/ Configure
  \/ Boot
  \/ Pipeline
  \/ \E kinds \in Kinds : Stop(kinds)
  \/ \E j \in 1..MaxStops, kinds \in Kinds : StopHandlerSettle(j, kinds)
  \/ OtherRearms

SpecTwo == Init /\ [][NextTwo]_vars

(***************************************************************************)
(* SpecEv: the dispatch of events.  A function handed to handle() is named *)
(* by what it does when invoked: it returns a value that is no promise, it *)
(* throws, it returns a promise, it returns null.  The task has one action *)
(* and one run; stop() is called at any moment after the boot.             *)
(***************************************************************************)
EvHandlerFns == {"return", "throw", "promise", "null"}
OptChoicesEv ==
  { [delay |-> Num(1), timer |-> Undef, at |-> <<>>, on |-> "", timeout |-> Num(2)] }

\* what the handlers registered for the event do, by position
kindsFor(event) ==
  [p \in 1..MaxEvHandlers |-> IF p <= Len(events[event]) THEN events[event][p] ELSE "return"]

\* the runs and the stop() calls whose dispatch waits for a promise
AwaitingRuns == {i \in 1..Len(runs) : runs[i].hidx > 0}
AwaitingStops == {j \in 1..Len(stops) : stops[j].hidx > 0}

HandlerSettles ==
  \E i \in AwaitingRuns : HandlerSettle(i, kindsFor(runs[i].evs[Len(runs[i].evs)].ev))

StopHandlerSettles ==
  \E j \in AwaitingStops : StopHandlerSettle(j, kindsFor("stop"))

NextEv ==
  \/ ActionCall("a", 1)
  \/ \E opt \in OptChoicesEv : ScheduleCall(<<"a">>, opt)
  \/ \E eventNames \in HandleLists, fn \in EvHandlerFns :
       HandleUpTo(MaxEvHandlers, eventNames, fn)
  \/ Boot
  \/ \E t \in timers : TimerFire(t)
  \/ \E i \in 1..MaxRuns, ok \in BOOLEAN :
       ActionSettle(i, ok, kindsFor(IF ok THEN "completed" ELSE "failed"))
  \/ \E i \in 1..MaxRuns : TimeoutFire(i, kindsFor("timeout"))
  \/ HandlerSettles
  \/ \E d \in Deadlines : TickTo(d)
  \/ Stop(kindsFor("stop"))
  \/ StopHandlerSettles

SpecEv == InitCtl /\ [][NextEv]_vars

\* every promise a handler returned settles in the end
SpecEvLive ==
  /\ InitCtl
  /\ [][NextEv]_vars
  /\ WF_vars(HandlerSettles)
  /\ WF_vars(StopHandlerSettles)

(***************************************************************************)
(* SpecCfg: the configuration of a task by its caller, with two functions  *)
(* to register as actions and the names listed in either order.            *)
(***************************************************************************)
CfgActionFns == {1, 2}
CfgNameLists == {<<"a">>, <<"a", "b">>, <<"b", "a">>, <<"c">>}

NextCfg ==
  \/ \E name \in ActionNames, fn \in CfgActionFns : ActionCall(name, fn)
  \/ \E names \in CfgNameLists, opt \in OptChoices : ScheduleCall(names, opt)
  \/ \E eventNames \in HandleLists, fn \in HandlerFns : HandleCall(eventNames, fn)
  \/ Boot

SpecCfg == Init /\ [][NextCfg]_vars

(***************************************************************************)
(* SpecPrep: the task configured with prepare hooks that return or throw.  *)
(***************************************************************************)
OptChoicesPrep ==
  { [delay |-> Num(1), timer |-> Undef,  at |-> <<>>, on |-> "", timeout |-> Num(2)],
    [delay |-> Undef,  timer |-> Num(1), at |-> <<>>, on |-> "", timeout |-> Undef] }

NextPrep ==
  \/ \E fn \in PrepareFns : PrepareCall(fn)
  \/ \E name \in ActionNames, fn \in ActionFns : ActionCall(name, fn)
  \/ \E names \in NameLists, opt \in OptChoicesPrep : ScheduleCall(names, opt)
  \/ Boot
  \/ \E t \in timers : TimerFire(t)
  \/ \E i \in 1..MaxRuns, ok \in BOOLEAN, kinds \in Kinds : ActionSettle(i, ok, kinds)
  \/ \E i \in 1..MaxRuns, kinds \in Kinds : TimeoutFire(i, kinds)
  \/ \E d \in Deadlines : TickTo(d)

SpecPrep == Init /\ [][NextPrep]_vars

(***************************************************************************)
(* SpecRun: a task with a repeating interval and handlers of its terminal  *)
(* events, started by addTask and never stopped.  In SpecRunLive the event *)
(* loop runs every callback that is due: a timeout whose time has come     *)
(* fires, and every promise of an action or of a handler settles.          *)
(***************************************************************************)
OptChoicesRun ==
  { [delay |-> Undef, timer |-> Num(1), at |-> <<>>, on |-> "", timeout |-> Undef],
    [delay |-> Undef, timer |-> Num(1), at |-> <<>>, on |-> "", timeout |-> Num(2)] }

TimerFires == \E t \in timers : TimerFire(t)

ActionSettles ==
  \E i \in 1..MaxRuns, ok \in BOOLEAN :
    ActionSettle(i, ok, kindsFor(IF ok THEN "completed" ELSE "failed"))

TimeoutFires == \E i \in 1..MaxRuns : TimeoutFire(i, kindsFor("timeout"))

Ticks == \E d \in Deadlines : TickTo(d)

NextRun ==
  \/ ActionCall("a", 1)
  \/ \E opt \in OptChoicesRun : ScheduleCall(<<"a">>, opt)
  \/ \E fn \in EvHandlerFns : HandleUpTo(MaxEvHandlers, {"completed", "failed", "timeout"}, fn)
  \/ Boot
  \/ TimerFires
  \/ ActionSettles
  \/ TimeoutFires
  \/ HandlerSettles
  \/ Ticks

SpecRun == InitCtl /\ [][NextRun]_vars

SpecRunLive ==
  /\ InitCtl
  /\ [][NextRun]_vars
  /\ WF_vars(TimerFires)
  /\ WF_vars(ActionSettles)
  /\ WF_vars(TimeoutFires)
  /\ WF_vars(HandlerSettles)
  /\ WF_vars(Ticks)

(***************************************************************************)
(* SpecSched: schedule() called once with a list of names, a string or     *)
(* another value, among the calls of action(), and the task left to run.   *)
(***************************************************************************)
ScheduleArgs ==
  {[k |-> "array", names |-> l] :
     l \in {<<>>, <<"a", "b">>, <<"b", "a">>, <<"c", "a">>, <<"c">>, <<"a", "a">>,
            <<"toString">>, <<"a", "toString">>}}
  \cup {[k |-> "string", names |-> <<n>>] : n \in {"a", "c"}}
  \cup {[k |-> "number", names |-> <<>>], [k |-> "undefined", names |-> <<>>]}

NextSched ==
  \/ \E name \in ActionNames, fn \in ActionFns : ActionCall(name, fn)
  \/ \E arg \in ScheduleArgs, opt \in OptChoicesPrep : ScheduleArgCall(arg, opt)
  \/ Boot
  \/ \E t \in timers : TimerFire(t)
  \/ \E i \in 1..MaxRuns, ok \in BOOLEAN, kinds \in Kinds : ActionSettle(i, ok, kinds)
  \/ \E i \in 1..MaxRuns, kinds \in Kinds : TimeoutFire(i, kinds)
  \/ \E d \in Deadlines : TickTo(d)

SpecSched == Init /\ [][NextSched]_vars

(***************************************************************************)
(* The claims.                                                             *)
(***************************************************************************)
RunIds == 1..Len(runs)
\* the run's pipeline or its timeout timer has settled the run
Settled(r) == r.pdone \/ r.tt.st = "fired"
\* the schedule has no clock-time and no calendar-anchor policy
NoClockPolicy == schedule.opt.at = <<>> /\ schedule.opt.on = ""

\* C1: every run dispatches exactly one of completed, failed, timeout: none
\* before it has settled, one once it has, never two; the event is timeout
\* exactly when the timeout timer fired first, and then the pipeline's
\* callback dispatches nothing
C1_OneTerminalEvent ==
  \A i \in RunIds :
    LET r == runs[i]
    IN  /\ Len(r.evs) <= 1
        /\ Settled(r) <=> Len(r.evs) = 1
        /\ Len(r.evs) = 1 =>
             /\ r.evs[1].ev \in {"completed", "failed", "timeout"}
             /\ r.evs[1].ev = "timeout" <=> r.tt.st = "fired"
             /\ r.evs[1].ev # "timeout" => r.pdone

\* a run whose timeout fired first and whose pipeline settled afterwards
C1_Witness ==
  \E i \in RunIds :
    /\ runs[i].tt.st = "fired"
    /\ runs[i].pdone
    /\ runs[i].evs = <<[ev |-> "timeout", err |-> 0]>>

\* a run whose pipeline settled before its pending timeout
C1_WitnessPipelineFirst ==
  \E i \in RunIds :
    /\ runs[i].tt.st = "cleared"
    /\ runs[i].evs = <<[ev |-> "completed", err |-> 0]>>

\* the schedule has a repeating interval, of at least 60 seconds
HasInterval == schedule.opt.timer # Undef
HasLongInterval == HasInterval /\ schedule.opt.timer.v >= 60

\* the runs whose context is created and not yet released by termination
LiveRuns == {i \in RunIds : ~runs[i].terminated}

\* C2: a task has at most one live context of a scheduled run, whatever the
\* timer firings, settlements and calls of start() and stop()
C2_AtMostOneLiveContext == Cardinality(LiveRuns) <= 1

\* C3: once stop() is called no run is started until start() is called again
C3_NoRunWhileStopped == [][stopped => runCount' = runCount]_vars

\* the delay C4 states: T seconds plus the override, in ms, at least 1 ms
statedRearmDelay(T, override) ==
  LET sum == T * 1000 + override * 1000
  IN  IF sum <= 0 THEN 1 ELSE sum

\* C4: when a run of a schedule with a repeating interval T terminates, the
\* timer is armed with exactly T*1000 ms plus the context's override in ms,
\* negative overrides included, a sum of zero or less replaced by 1 ms
C4_RearmDelay ==
  [][\A i \in RunIds :
       (/\ i <= Len(runs')
        /\ ~runs[i].terminated
        /\ runs'[i].terminated
        /\ HasInterval
        /\ NoClockPolicy)
       => \E t \in timers' :
            /\ t.id = timer'
            /\ t.delay = statedRearmDelay(schedule.opt.timer.v, runs[i].ctx.delay)
            /\ t.delay >= 1]_vars

\* the step is the first run of the task, created by the timer that the
\* first start armed, while the store holds a timestamp later than the boot
FirstRunBeforeResume ==
  /\ runCount = 0
  /\ runCount' = 1
  /\ \E t \in timers \ timers' : t.first
  /\ IsNum(persist[TaskName])
  /\ persist[TaskName].v > BootTime
  /\ now < persist[TaskName].v

\* C5 as stated: with any repeating interval, the first run after a restart
\* does not start before a persisted resume timestamp that is in the future
C5_AnyInterval == [][HasInterval => ~FirstRunBeforeResume]_vars

\* C5: with a repeating interval of at least 60 seconds and no clock-time or
\* calendar policy, the first run after a restart does not start before a
\* persisted resume timestamp that is in the future
C5_ResumeNotBeforePersisted ==
  [][(HasLongInterval /\ NoClockPolicy) => ~FirstRunBeforeResume]_vars

\* the first run of such a task in flight, started at the persisted timestamp
\* or later, the timestamp being later than the boot
C5_Witness ==
  /\ HasLongInterval
  /\ NoClockPolicy
  /\ persist[TaskName] = Num(9000)
  /\ runCount = 1
  /\ \E i \in RunIds :
       runs[i].first /\ ~runs[i].terminated /\ runs[i].ctx.start_at >= 9000

\* C6: a task scheduled with a delay at most and no repeating interval,
\* started once, has its one timer pending until its only run, and after
\* that run no timer is armed and nothing is written to the store
C6_RunsOnce ==
  (booted /\ schedule # NoSchedule /\ NoClockPolicy /\ ~HasInterval) =>
    /\ runCount <= 1
    /\ runCount = 0 => Cardinality(timers) = 1
    /\ runCount = 1 => timers = {}
    /\ persistWrites = 0
    /\ \A i \in RunIds : runs[i].invoked[1] = 1

\* the only run of a delay-only task has terminated
C6_Witness ==
  /\ booted
  /\ Truthy(schedule.opt.delay)
  /\ NoClockPolicy
  /\ ~HasInterval
  /\ runCount = 1
  /\ \E i \in RunIds : runs[i].terminated /\ Len(runs[i].evs) = 1

\* actions are invoked in the schedule's order, one in flight at a time
InOrder(r) ==
  /\ \A j \in 1..Len(r.invoked) : r.invoked[j] = j
  /\ Len(r.invoked) <= Len(schedule.items)
  /\ r.cur \in {0, Len(r.invoked)}

\* C7 as stated: in a run whose k-th action fails no later action is
\* invoked, failed is dispatched with that error and completed is not
C7_FailedAlways ==
  \A i \in RunIds :
    LET r == runs[i]
    IN  /\ InOrder(r)
        /\ r.failed # 0 =>
             /\ r.failed = Len(r.invoked)
             /\ r.cur = 0
             /\ r.evs = <<[ev |-> "failed", err |-> r.failed]>>

\* C7: in a run whose k-th action fails no later action is invoked and
\* completed is not dispatched; failed is dispatched with that error unless
\* the run's timeout fired before the failure; actions are invoked in order
C7_FailureAborts ==
  \A i \in RunIds :
    LET r == runs[i]
    IN  /\ InOrder(r)
        /\ r.failed # 0 =>
             /\ r.failed = Len(r.invoked)
             /\ r.cur = 0
             /\ \A j \in 1..Len(r.evs) : r.evs[j].ev # "completed"
             /\ r.tt.st # "fired" => r.evs = <<[ev |-> "failed", err |-> r.failed]>>
             /\ r.tt.st = "fired" => r.evs = <<[ev |-> "timeout", err |-> 0]>>

\* the first of two scheduled actions failed: the second was not invoked
C7_Witness ==
  \E i \in RunIds :
    /\ Len(schedule.items) = 2
    /\ runs[i].failed = 1
    /\ runs[i].invoked = <<1>>
    /\ runs[i].evs = <<[ev |-> "failed", err |-> 1]>>

\* C8: a task with a clock-time or calendar policy has its timer armed again
\* once its run has terminated, with or without a repeating interval
C8_ClockPolicyRearms ==
  (/\ ~NoClockPolicy
   /\ runCount >= 1
   /\ \A i \in RunIds : runs[i].terminated)
  => timers # {}

\* C9: at most one scheduling timer is outstanding, the one start() armed last
C9_OneTimer ==
  /\ Cardinality(timers) <= 1
  /\ \A t \in timers : t.id = timer

\* start() was called again while a timer was pending: only the new one is left
C9_Witness ==
  /\ startCalls >= 2
  /\ armCount >= 2
  /\ \E t \in timers : t.id = armCount

\* C10: the delay getLaunchAt returns for a valid time of day is strictly
\* positive at every current time
C10_PositiveDelay ==
  \A t \in timers :
    (schedule.opt.at # <<>> /\ schedule.opt.on = "") => t.delay > 0

\* the last day of the month a day falls in, and of the month after it
lastDayOfMonth(m) == monthStart(m) + daysInMonth(m) - 1

\* C11: getLaunchOn('month-end') returns a strictly positive delay, and the
\* instant it leads to is 00:00:00 of the last day of the current month or
\* of the next one, also when the next month is the longer one
C11_MonthEnd ==
  (call.fn = "getLaunchOn" /\ call.arg = "month-end") =>
    /\ call.res > call.day
    /\ call.res \in {lastDayOfMonth(monthOf(call.day)),
                        lastDayOfMonth(monthOf(call.day) + 1)}

\* a token that is digits followed by one unit letter
UnitChars == {"s", "m", "h", "d"}
unitMultiplier(c) ==
  IF c = "s" THEN 1 ELSE IF c = "m" THEN 60 ELSE IF c = "h" THEN 3600 ELSE 86400
wellFormed(tok) ==
  /\ Len(tok) >= 2
  /\ tok[Len(tok)] \in UnitChars
  /\ \A i \in 1..(Len(tok) - 1) : isDigit(tok[i])
\* a token with no unit letter in it
unitless(tok) == tok # <<>> /\ \A i \in 1..Len(tok) : tok[i] \notin UnitChars

\* what C12 states a token contributes
statedContribution(tok) ==
  IF wellFormed(tok)
  THEN leadingDigits(0, tok) * unitMultiplier(tok[Len(tok)])
  ELSE 0
RECURSIVE statedSum(_)
statedSum(toks) ==
  IF toks = <<>> THEN 0 ELSE statedContribution(Head(toks)) + statedSum(Tail(toks))

\* C12: getSeconds of a string whose tokens are each a magnitude with a unit
\* or have no unit at all is the sum of magnitude times multiplier over the
\* tokens with a unit, a token without one contributing 0 wherever it
\* stands; a number is returned clamped to at least 0
C12_SumOfTokens ==
  call.fn = "getSeconds" =>
    /\ call.arg.k = "num" => call.res = Num(Max(0, call.arg.v))
    /\ (/\ call.arg.k = "str"
        /\ \A i \in 1..Len(split(call.arg.v)) :
             wellFormed(split(call.arg.v)[i]) \/ unitless(split(call.arg.v)[i]))
       => call.res = Num(statedSum(split(call.arg.v)))

\* C13: a step of one task leaves the other task's schedule, armed timer,
\* actions, handlers and entry of the store unchanged: every step that is
\* not the other task's own leaves what the other task holds and its entry
\* as they are, and the other task's step leaves those of the task modelled
C13_TasksIsolated ==
  [][/\ other.arms' = other.arms =>
          other' = other /\ persist'[OtherTask] = persist[OtherTask]
     /\ other.arms' # other.arms =>
          /\ persist'[TaskName] = persist[TaskName]
          /\ UNCHANGED <<actions, schedule, events, timer, timers, runs>>]_vars

\* both tasks have re-armed, the task modelled after a run that failed or
\* timed out, and both entries of the store are written
C13_Witness ==
  /\ other.arms = 1
  /\ persistWrites >= 1
  /\ \E i \in RunIds : runs[i].terminated /\ runs[i].evs[1].ev \in {"failed", "timeout"}
  /\ IsNum(persist[TaskName])
  /\ IsNum(persist[OtherTask])

\* hcalls is the log of a dispatch to the handlers of list that stands at
\* hidx: the handlers were invoked in the order of the list, each once, none
\* past a promise that has not settled, and only a handler that returned
\* null keeps the ones after it from being invoked
DispatchInOrder(list, hcalls, hidx) ==
  /\ Len(hcalls) <= Len(list)
  /\ hcalls = SubSeq(list, 1, Len(hcalls))
  /\ hidx > 0 => Len(hcalls) = hidx /\ list[hidx] = "promise"
  /\ hidx < 0 => Len(hcalls) = 0 - hidx /\ list[0 - hidx] = "null"
  /\ hidx = 0 => hcalls = list

\* the runs in flight: an action of the pipeline is yet to settle
InFlight == {i \in RunIds : runs[i].cur # 0}

DispatchOpen ==
  \/ \E j \in 1..Len(stops) : stops[j].cb = 0
  \/ \E i \in RunIds : runs[i].evs # <<>> /\ ~runs[i].terminated

\* C20: the continuation of every dispatch is called in the end, and once,
\* whatever the handlers return (nothing, null, a value, a promise), the
\* promises settling in the end
C20_DispatchSettles ==
  /\ [](\A j \in 1..Len(stops) : stops[j].cb <= 1)
  /\ DispatchOpen ~> ~DispatchOpen

\* C15: once a schedule is bound, a later schedule() call, whatever its
\* arguments, leaves the timing policy and the action list as they are
C15_ScheduleOnce == [][schedule # NoSchedule => schedule' = schedule]_vars

\* a schedule of two actions with an interval is bound and the caller is
\* still configuring the task
C15_Witness ==
  /\ ~booted
  /\ schedule.opt.timer = Num(60)
  /\ schedule.items = <<[name |-> "b", fn |-> 1], [name |-> "a", fn |-> 2]>>

C17_PromptAfterRestart ==
  \A t \in timers :
    (/\ t.first
     /\ HasInterval
     /\ NoClockPolicy
     /\ IsNum(persist[TaskName])
     /\ persist[TaskName].v <= BootTime)
    => t.delay >= 0 /\ t.delay <= 5

\* the timers a first start armed for a repeating task without clock policy
\* whose persisted resume timestamp had passed at the boot
OverdueFirstTimers ==
  {t \in timers :
     /\ t.first
     /\ HasInterval
     /\ NoClockPolicy
     /\ IsNum(persist[TaskName])
     /\ persist[TaskName].v <= BootTime}

\* C17 amended: such a task is armed with the initial delay its schedule
\* configures (none: 0 ms), the persisted timestamp adding nothing
C17_ConfiguredDelayOnly ==
  \A t \in OverdueFirstTimers :
    /\ t.delay = (IF Truthy(schedule.opt.delay) THEN schedule.opt.delay.v * 1000 ELSE 0)
    /\ t.due = BootTime + t.delay

\* an overdue task with an interval of 60 s and an initial delay of 1 s is
\* armed at its first start
C17_Witness ==
  \E t \in OverdueFirstTimers :
    /\ schedule.opt.timer = Num(60)
    /\ schedule.opt.delay = Num(1)
    /\ t.delay = 1000

\* C18: once the stopped flag of a run's context has been set, by an action
\* or by the timeout firing, no action of that run is invoked any more, also
\* after the timeout's handlers have settled and the context was released
C18_NoActionAfterStopped ==
  [][\A i \in RunIds :
       (/\ runCount' = runCount
        /\ runs[i].ctx.stopped \/ runs[i].tt.st = "fired")
       => runs'[i].invoked = runs[i].invoked]_vars

\* the timer the step arms, start() having called setTimeout
ArmedNow == CHOOSE t \in timers' : t.id = timer'
\* the delay of a schedule without policy as C21 states it: the delay handed
\* to start() if it is a number, otherwise the configured delay in ms
statedDelay(t) ==
  IF IsNum(t.arg) THEN t.arg.v
  ELSE IF IsNum(schedule.opt.delay) THEN schedule.opt.delay.v * 1000 ELSE 0
\* the delay of a schedule with a policy: a function of the policy and of
\* the wall clock read by start()
policyDelay == getLaunchAt(schedule.opt.at, now, now) + getLaunchOn(schedule.opt.on, now)
\* max(0, persisted timestamp - now), 0 when the store holds no timestamp
persistedOffset ==
  IF IsNum(persist[TaskName]) /\ persist[TaskName].v > now
  THEN persist[TaskName].v - now ELSE 0

\* C21 as stated: with a clock-time or calendar policy the armed delay is a
\* function of the policy and the wall clock alone; without one it is the
\* delay handed to start() if that is a number and the configured delay
\* otherwise, on every start
C21_OverrideOrConfigured ==
  [][armCount' # armCount =>
       ArmedNow.delay = (IF NoClockPolicy THEN statedDelay(ArmedNow) ELSE policyDelay)]_vars

\* C21 amended: the same, the persisted resume offset being added without a
\* policy on a first start of a schedule whose interval is 60 s or more
C21_ArmedDelay ==
  [][armCount' # armCount =>
       ArmedNow.delay =
         (IF NoClockPolicy
          THEN statedDelay(ArmedNow)
               + (IF ArmedNow.first /\ HasLongInterval THEN persistedOffset ELSE 0)
          ELSE policyDelay)]_vars

\* a schedule with a clock time re-armed after a run with the interval as
\* the delay handed to start(), and armed with another delay
C21_Witness ==
  \E t \in timers :
    /\ ~NoClockPolicy
    /\ ~t.first
    /\ IsNum(t.arg)
    /\ t.delay # t.arg.v

\* the delay of the step's start() were the store empty
delayWithoutStore == IF NoClockPolicy THEN statedDelay(ArmedNow) ELSE policyDelay

\* C22: the delay armed by start() is the delay it arms with an empty store,
\* or that delay plus max(0, persisted timestamp - now); it is the latter
\* only on a first start of a schedule whose interval is 60 s or more
C22_OffsetOnlyFirstLong ==
  [][armCount' # armCount =>
       /\ ArmedNow.delay \in {delayWithoutStore, delayWithoutStore + persistedOffset}
       /\ ArmedNow.delay # delayWithoutStore => ArmedNow.first /\ HasLongInterval]_vars

\* with a persisted timestamp 4 s ahead and an interval of 60 s, the first
\* start has armed the configured 1000 ms plus the 4000 ms of the offset
C22_Witness ==
  /\ HasLongInterval
  /\ NoClockPolicy
  /\ persist[TaskName] = Num(9000)
  /\ \E t \in timers : t.first /\ t.arg = Undef /\ t.delay = 1000 + 4000

\* run i is released by termination in this step
Terminates(i) ==
  /\ runCount' = runCount
  /\ i <= Len(runs')
  /\ ~runs[i].terminated
  /\ runs'[i].terminated
\* the interval plus the override of run i's context, a negative override
\* counting as none, in ms and at least 1 ms
resumeDelay(i) ==
  LET sum == schedule.opt.timer.v * 1000 + Max(0, runs[i].ctx.delay) * 1000
  IN  IF sum <= 0 THEN 1 ELSE sum
\* the store is written once in this step, and once only per terminating run
WrittenOncePerRun ==
  /\ persistWrites' # persistWrites
       => \E i \in RunIds : Terminates(i) /\ Settled(runs'[i]) /\ HasInterval
  /\ \A i \in RunIds :
       Terminates(i) =>
         /\ \A j \in RunIds : Terminates(j) => j = i
         /\ persistWrites' = persistWrites + (IF HasInterval THEN 1 ELSE 0)
         /\ ~HasInterval => persist' = persist
\* the step changes the store only where the other task writes its entry
OnlyOtherWrites == \A n \in TaskNames : n # OtherTask => persist'[n] = persist[n]

AllPrepares == [j \in 1..Len(prepares) |-> [k |-> "prepare", n |-> j]]

\* C24: in every run all registered prepare hooks are called in registration
\* order before the first action is invoked, and the first action is
\* invoked also when a hook has thrown
C24_PreparesThenPipeline ==
  \A i \in RunIds :
    /\ runs[i].sync = AllPrepares \o <<[k |-> "action", n |-> 1]>>
    /\ runs[i].invoked # <<>>
    /\ runs[i].invoked[1] = 1

\* a run of a task whose first hook throws and whose second returns, its
\* first action settled and its second invoked
C24_Witness ==
  /\ prepares = <<"throw", "return">>
  /\ \E i \in RunIds :
       /\ Len(runs[i].sync) = 3
       /\ runs[i].invoked = <<1, 2>>

\* the listed names that are registered actions, in the caller's order,
\* with the functions registered under them
RECURSIVE registeredOf(_)
registeredOf(names) ==
  IF names = <<>> THEN <<>>
  ELSE IF Head(names) \in ActionNames /\ actions[Head(names)] # 0
       THEN <<[name |-> Head(names), fn |-> actions[Head(names)]]>> \o registeredOf(Tail(names))
       ELSE registeredOf(Tail(names))
\* the pipeline C25 states for a call of schedule()
statedPipeline(arg) ==
  IF arg.k \in {"string", "array"} THEN registeredOf(arg.names) ELSE <<>>

\* C25: schedule() binds as the pipeline exactly the listed names that are
\* registered actions at the call, in the caller's order; when there is
\* none, or the names are no list and no string, no schedule is bound, and
\* a task without schedule has no timer armed by start()
C25_BindsRegistered ==
  /\ [][(call.fn = "" /\ call'.fn = "schedule")
         => /\ schedule'.items = statedPipeline(call'.arg)
            /\ statedPipeline(call'.arg) = <<>> => schedule' = NoSchedule]_vars
  /\ [](schedule = NoSchedule => (timers = {} /\ timer = 0 /\ armCount = 0 /\ runCount = 0))

\* C26: a started task with a repeating interval that is never stopped runs
\* again and again: every run is terminated in the end, its context
\* released, and is followed by the next run (up to the MaxRuns-th), the
\* actions and the handlers settling in the end
C26_RunsAgain ==
  /\ (HasInterval /\ LiveRuns # {}) ~> (LiveRuns = {})
  /\ \A n \in 1..(MaxRuns - 1) :
       (HasInterval /\ booted /\ runCount = n) ~> (runCount > n)

=============================================================================
